---- MODULE Spec2Model ----
(***************************************************************************)
(* A model of the RAISIN package manager / build orchestrator:             *)
(*   - commands/setup.py   : process_build_targets, build_dependency_graph,*)
(*                           update_cmake_file (selection of the projects),*)
(*                           topological_sort, move_key_before (build      *)
(*                           order)                                        *)
(*   - commands/install.py : install_command (queue-driven installer)      *)
(*   - commands/index.py   : index_local_command (two-pass validation)     *)
(* The engines are independent; each has its own specification over the    *)
(* shared variable tuple, the other engines' variables staying idle.       *)
(***************************************************************************)
EXTENDS Integers, Sequences, FiniteSets, TLC

(***************************************************************************)
(* Bounds of the model.                                                    *)
(***************************************************************************)
NUnits == 3
MaxEdges == 3
MaxVer == 2          \* versions are 1.0.0 .. MaxVer.0.0
MaxReleases == 2     \* releases listed by one repository
MaxDepth == 2        \* dependency depths are counted up to MaxDepth
MaxDeclared == 1     \* dependency declarations of a workspace that is set up for given targets
MaxChain == 21       \* units of the longest dependency chain

(***************************************************************************)
(* Program constants.                                                      *)
(***************************************************************************)
MaxPasses == 20

VARIABLES
    \* ---- build order (commands/setup.py) ----
    filtered_graph,        \* unit -> list of dependency units
    discovery_order,       \* list(filtered_graph.keys()), the order handed to the first sort
    keys,                  \* topological_sort: working key list (mutated in place)
    original_keys,         \* topological_sort: keys.copy() taken on entry
    pass_i,                \* topological_sort: loop variable i of "for i in range(20)"
    sort_calls,            \* update_cmake_file: number of topological_sort calls that returned
    sorted_project_names,  \* update_cmake_file: result of the last returned call
    build_pc,              \* "sort" | "sorted" | "written" | "exit1"
    cmake_lines,           \* add_subdirectory order written to CMakeLists.txt
    \* ---- installer (commands/install.py) ----
    targets,               \* the specs given to install_command
    install_queue,         \* list of spec strings still to process
    processed_packages,    \* set of (package_name, version) pairs
    is_successful,         \* the aggregate success flag
    install_pc,            \* "idle" | "loop" | "done" | "crashed"
    cache,                 \* release/install/<name>/<variant>, per package
    src_tree,              \* src/<name>, per package
    manifest_deps,         \* the "dependencies" list of a package's release.yaml
    repos,                 \* repositories.yaml entry, per package
    user_type,             \* configuration_setting.yaml: "user" | "devel"
    run,                   \* 1 for the first invocation, 2 for the repeated one
    last,                  \* history: what the loop did with the item it popped last
                           \* (tick: the parity of the number of items popped)
    hist,                  \* history: facts accumulated over the run
    depths,                \* history: the dependency depth of the item popped last and
                           \* of every queued item (0: given on entry; counted up to MaxDepth)
    \* ---- local index (commands/index.py) ----
    targets_to_process,    \* the packages find_target_yamls found a release.yaml for
    manifests,             \* the content of each package's release.yaml
    index_pc,              \* "idle" | "start" | "parse" | "validate" | "done"
    parse_pc,              \* pass 1 future per package: "none" | "queued" | "running" | "finished" | "collected"
    all_parse_results,     \* list of (name, ver, deps) in completion order
    package_db,            \* name -> version of the packages usable as dependencies
    val_pc,                \* pass 2 future per package, as parse_pc
    final_print_data,      \* list of rows (name, ver, dependency statuses)
    \* ---- project selection (commands/setup.py, update_cmake_file steps 1-3) ----
    build_targets,         \* the targets given to setup_command
    build_pattern,         \* g.build_pattern
    declared,              \* project -> what find_dependencies reads in its CMakeLists.txt
    full_graph,            \* build_dependency_graph(project_directories)
    pattern_given,         \* g.build_pattern is not empty
    initial_matches,       \* the project names that match one of the patterns
    projects_to_include,   \* the set update_cmake_file collects
    filter_pc              \* "idle" | "targets" | "scan" | "start" | "filtered"

sortVars == <<filtered_graph, discovery_order, keys, original_keys, pass_i,
              sort_calls, sorted_project_names, build_pc, cmake_lines>>

installVars == <<targets, install_queue, processed_packages, is_successful, install_pc,
                 cache, src_tree, manifest_deps, repos, user_type, run, last, hist,
                 depths>>

indexVars == <<targets_to_process, manifests, index_pc, parse_pc, all_parse_results,
               package_db, val_pc, final_print_data>>

filterVars == <<build_targets, build_pattern, declared, full_graph, pattern_given,
                initial_matches, projects_to_include, filter_pc>>

vars == <<sortVars, installVars, indexVars, filterVars>>

(***************************************************************************)
(* Generic list helpers (Python list semantics, 1-based here).             *)
(***************************************************************************)
Range(s) == {s[i] : i \in 1..Len(s)}

NoRepeat(s) == \A i, j \in 1..Len(s) : s[i] = s[j] => i = j

\* list.index(x): position of the first occurrence
Index(s, x) == CHOOSE i \in 1..Len(s) : s[i] = x /\ \A j \in 1..(i-1) : s[j] # x

\* mutant: nothing is removed
ListRemoveSkipped(s, x) == s

\* list.remove(x): drop the first occurrence
ListRemove(s, x) ==
    LET p == Index(s, x)
    IN  SubSeq(s, 1, p-1) \o SubSeq(s, p+1, Len(s))

\* list.insert(i0, x) with the 0-based index i0 (clamped to the length, as Python does)
ListInsert(s, i0, x) ==
    LET p == IF i0 > Len(s) THEN Len(s) ELSE i0
    IN  SubSeq(s, 1, p) \o <<x>> \o SubSeq(s, p+1, Len(s))

Perms(S) == {s \in [1..Cardinality(S) -> S] : NoRepeat(s)}

(***************************************************************************)
(* commands/setup.py: move_key_before / topological_sort                   *)
(***************************************************************************)
Units == 1..NUnits

Edges == Units \X Units

\* the dependency declarations in file order: a list of (unit, dependency) pairs
EdgeLists == {s \in UNION {[1..n -> Edges] : n \in 0..MaxEdges} : NoRepeat(s)}

RECURSIVE DepsOf(_, _)
DepsOf(es, u) ==
    IF es = <<>> THEN <<>>
    ELSE IF Head(es)[1] = u THEN <<Head(es)[2]>> \o DepsOf(Tail(es), u)
         ELSE DepsOf(Tail(es), u)

GraphOf(es) == [u \in Units |-> DepsOf(es, u)]

\* the dependency graphs that at most MaxEdges declarations can produce
Graphs == {GraphOf(es) : es \in EdgeLists}

\* mutant: the key is put in front of its dependency (as the docstring words it)
move_key_before_front(dep, ks, key) ==
    LET dep_index == Index(ks, dep) - 1
        key_index == Index(ks, key) - 1
    IN  IF key_index > dep_index THEN ks
        ELSE ListInsert(ListRemove(ks, key), dep_index - 1, key)

move_key_before(dep, ks, key) ==
    LET dep_index == Index(ks, dep) - 1      \* 0-based, as keys.index(dep)
        key_index == Index(ks, key) - 1
    IN  IF key_index > dep_index THEN ks
        ELSE ListInsert(ListRemove(ks, key), dep_index, key)

\* inner loop: for dep in graph[key]: if dep in graph: keys = move_key_before(...)
RECURSIVE MoveForDeps(_, _, _, _)
MoveForDeps(graph, deps, ks, key) ==
    IF deps = <<>> THEN ks
    ELSE MoveForDeps(graph, Tail(deps),
                     IF Head(deps) \in DOMAIN graph
                     THEN move_key_before(Head(deps), ks, key) ELSE ks,
                     key)

\* one pass of the outer loop body: for key in original_keys: ...
\* (the test of ks has the list computed before the next key is handled)
RECURSIVE SortPass(_, _, _)
SortPass(graph, orig, ks) ==
    IF orig = <<>> \/ ks = <<>> THEN ks
    ELSE SortPass(graph, Tail(orig), MoveForDeps(graph, graph[Head(orig)], ks, Head(orig)))

SortInit ==
    /\ filtered_graph \in Graphs
    /\ discovery_order \in Perms(Units)
    /\ keys = discovery_order
    /\ original_keys = discovery_order
    /\ pass_i = 0
    /\ sort_calls = 0
    /\ sorted_project_names = discovery_order
    /\ build_pc = "sort"
    /\ cmake_lines = <<>>

\* a workspace whose n units form one chain: unit u depends on unit u + 1
ChainGraph(n) == [u \in 1..n |-> IF u < n THEN <<u + 1>> ELSE <<>>]

\* the units 1..n in ascending order, started at unit k + 1
Rotation(n, k) == [i \in 1..n |-> ((i + k - 1) % n) + 1]

\* update_cmake_file reaches step 4 with a chain of up to MaxChain units
SortChainInit ==
    /\ \E n \in 1..MaxChain : \E k \in 0..(n - 1) :
          /\ filtered_graph = ChainGraph(n)
          /\ discovery_order = Rotation(n, k)
    /\ keys = discovery_order
    /\ original_keys = discovery_order
    /\ pass_i = 0
    /\ sort_calls = 0
    /\ sorted_project_names = discovery_order
    /\ build_pc = "sort"
    /\ cmake_lines = <<>>

SortIdle ==
    /\ filtered_graph = [u \in Units |-> <<>>]
    /\ discovery_order = <<>>
    /\ keys = <<>>
    /\ original_keys = <<>>
    /\ pass_i = 0
    /\ sort_calls = 0
    /\ sorted_project_names = <<>>
    /\ build_pc = "idle"
    /\ cmake_lines = <<>>

\* a pass that changes the list, before the last pass: next iteration
SortPassChanged ==
    /\ build_pc = "sort"
    /\ LET after == SortPass(filtered_graph, original_keys, keys)
       IN  /\ after # keys
           /\ pass_i < MaxPasses - 1
           /\ keys' = after
           /\ pass_i' = pass_i + 1
    /\ UNCHANGED <<filtered_graph, discovery_order, original_keys, sort_calls,
                   sorted_project_names, build_pc, cmake_lines>>
    /\ UNCHANGED <<installVars, indexVars, filterVars>>

\* previous_keys == keys: return keys; update_cmake_file calls the sort twice
SortReturn ==
    /\ build_pc = "sort"
    /\ LET after == SortPass(filtered_graph, original_keys, keys)
       IN  /\ after = keys
           /\ sorted_project_names' = after
           /\ sort_calls' = sort_calls + 1
           /\ IF sort_calls + 1 < 2
              THEN /\ keys' = after
                   /\ original_keys' = after
                   /\ pass_i' = 0
                   /\ build_pc' = "sort"
              ELSE /\ build_pc' = "sorted"
                   /\ UNCHANGED <<keys, original_keys, pass_i>>
    /\ UNCHANGED <<filtered_graph, discovery_order, cmake_lines>>
    /\ UNCHANGED <<installVars, indexVars, filterVars>>

\* mutant: the list reached after the last pass is written before the exit
SortCyclicExitWrites ==
    /\ build_pc = "sort"
    /\ LET after == SortPass(filtered_graph, original_keys, keys)
       IN  /\ after # keys
           /\ pass_i = MaxPasses - 1
           /\ keys' = after
           /\ cmake_lines' = after
    /\ build_pc' = "exit1"
    /\ UNCHANGED <<filtered_graph, discovery_order, original_keys, pass_i, sort_calls,
                   sorted_project_names>>
    /\ UNCHANGED <<installVars, indexVars, filterVars>>

\* i == 19 and the pass still changed the list: "Cyclic dependency detected", sys.exit(1)
SortCyclicExit ==
    /\ build_pc = "sort"
    /\ LET after == SortPass(filtered_graph, original_keys, keys)
       IN  /\ after # keys
           /\ pass_i = MaxPasses - 1
           /\ keys' = after
    /\ build_pc' = "exit1"
    /\ UNCHANGED <<filtered_graph, discovery_order, original_keys, pass_i, sort_calls,
                   sorted_project_names, cmake_lines>>
    /\ UNCHANGED <<installVars, indexVars, filterVars>>

\* the add_subdirectory lines are written in the sorted order
WriteCMake ==
    /\ build_pc = "sorted"
    /\ cmake_lines' = sorted_project_names
    /\ build_pc' = "written"
    /\ UNCHANGED <<filtered_graph, discovery_order, keys, original_keys, pass_i,
                   sort_calls, sorted_project_names>>
    /\ UNCHANGED <<installVars, indexVars, filterVars>>

NextSort == SortPassChanged \/ SortReturn \/ SortCyclicExit \/ WriteCMake

(***************************************************************************)
(* commands/setup.py: process_build_targets, build_dependency_graph and    *)
(* update_cmake_file, the selection of the projects                        *)
(***************************************************************************)
\* a name that a CMakeLists.txt refers to and that no discovered project has
External == 0

Names == Units \cup {External}

\* the raisin_find_package declarations in file order, before any filtering
RawEdgeLists(n) == {s \in UNION {[1..k -> Units \X Names] : k \in 0..n} : NoRepeat(s)}

RawGraphs == {GraphOf(es) : es \in RawEdgeLists(MaxEdges)}

\* mutant: the dependency lists are returned as find_dependencies read them
build_dependency_graph_raw(dependencies) == dependencies

\* build_dependency_graph: graph[key] = [elem for elem in graph[key] if elem in graph]
build_dependency_graph(dependencies) ==
    [key \in DOMAIN dependencies |->
        SelectSeq(dependencies[key], LAMBDA elem : elem \in DOMAIN dependencies)]

\* a build pattern is described by the set of project names fnmatch accepts for it
ExactPatterns == {{u} : u \in Units}

\* the pattern lists of the setup runs: no pattern, or the name of one project
PatternLists == {<<>>} \cup {<<pat>> : pat \in ExactPatterns}

\* src/<target> does not exist
NoDir == [exists |-> FALSE, subdirs |-> <<>>]

\* src/<target> exists; its subdirectories, by name
Dir(subdirs) == [exists |-> TRUE, subdirs |-> subdirs]

\* a target of the command line: what src/<target> is, and
\* all_build_maps.get(target, [])
Target(src_dir, maps_entry) == [src_dir |-> src_dir, maps_entry |-> maps_entry]

\* no target, one target, or two (of the second only the map entry is read)
BuildTargetLists ==
    LET first == {Target(d, m) : d \in {NoDir} \cup {Dir(l) : l \in PatternLists},
                                   m \in PatternLists}
        second == {Target(NoDir, m) : m \in PatternLists}
    IN  {<<>>} \cup {<<t>> : t \in first} \cup {<<t, u>> : t \in first, u \in second}

\* the loop "for target in targets: found_patterns.extend(patterns_for_target)"
RECURSIVE found_patterns(_)
found_patterns(tgts) ==
    IF tgts = <<>> THEN <<>> ELSE Head(tgts).maps_entry \o found_patterns(Tail(tgts))

\* mutant: targets that map to no pattern select nothing
process_build_targets_none(tgts) ==
    IF Len(tgts) > 1 /\ tgts[1].src_dir.exists THEN tgts[1].src_dir.subdirs
    ELSE IF tgts # <<>> /\ found_patterns(tgts) = <<>> THEN <<{}>>
    ELSE found_patterns(tgts)

\* process_build_targets(targets): the value left in g.build_pattern
process_build_targets(tgts) ==
    IF Len(tgts) > 1 /\ tgts[1].src_dir.exists THEN tgts[1].src_dir.subdirs
    ELSE found_patterns(tgts)

\* {name for name in all_project_names for pattern in g.build_pattern
\*  if fnmatch.fnmatch(name, pattern)}
MatchedBy(patterns) == {name \in Units : \E i \in 1..Len(patterns) : name \in patterns[i]}

NoGraph == [u \in Units |-> <<>>]

\* setup_command is entered: the targets and the workspace are given
SetupInit ==
    /\ build_targets \in BuildTargetLists
    /\ build_pattern = <<>>
    /\ declared \in {GraphOf(es) : es \in RawEdgeLists(MaxDeclared)}
    /\ full_graph = NoGraph
    /\ pattern_given = FALSE
    /\ initial_matches = {}
    /\ projects_to_include = {}
    /\ filter_pc = "targets"

\* update_cmake_file is entered by a setup without targets
GraphInit ==
    /\ build_targets = <<>>
    /\ build_pattern = <<>>
    /\ declared \in RawGraphs
    /\ full_graph = NoGraph
    /\ pattern_given = FALSE
    /\ initial_matches = {}
    /\ projects_to_include = {}
    /\ filter_pc = "scan"

\* setup_command: process_build_targets(targets), then setup()
ProcessBuildTargets ==
    /\ filter_pc = "targets"
    /\ build_pattern' = process_build_targets(build_targets)
    /\ filter_pc' = "scan"
    /\ UNCHANGED <<build_targets, declared, full_graph, pattern_given, initial_matches,
                   projects_to_include>>
    /\ UNCHANGED <<sortVars, installVars, indexVars>>

\* update_cmake_file, step 1 and the start of step 2: the full graph, the test
\* of g.build_pattern and the names that match a pattern
BuildGraph ==
    /\ filter_pc = "scan"
    /\ full_graph' = build_dependency_graph(declared)
    /\ pattern_given' = (build_pattern # <<>>)
    /\ initial_matches' = MatchedBy(build_pattern)
    /\ filter_pc' = "start"
    /\ UNCHANGED <<build_targets, build_pattern, declared, projects_to_include>>
    /\ UNCHANGED <<sortVars, installVars, indexVars>>

\* mutant: the dependencies of the matched projects are included, but the
\* dependencies of those are not looked at
ClosureDirect(graph, queue, visited, include) ==
    include \cup Range(queue) \cup UNION {Range(graph[p]) : p \in Range(queue)}

\* the loop "while queue": project names are popped from the front, a name
\* seen before is dropped, a new one is included and its dependencies appended
RECURSIVE Closure(_, _, _, _)
Closure(graph, queue, visited, include) ==
    IF queue = <<>> THEN include
    ELSE LET project_name == Head(queue)
         IN  IF project_name \in visited
             THEN Closure(graph, Tail(queue), visited, include)
             ELSE Closure(graph, Tail(queue) \o graph[project_name],
                          visited \cup {project_name}, include \cup {project_name})

\* step 3: the graph restricted to the included projects
Restrict(graph, include) ==
    [project \in include |-> SelectSeq(graph[project], LAMBDA dep : dep \in include)]

\* update_cmake_file has built the full graph and matched the names; the
\* patterns, if any, come from one target
FilterInit ==
    /\ full_graph \in Graphs
    /\ pattern_given \in BOOLEAN
    /\ initial_matches \in IF pattern_given THEN SUBSET Units ELSE {{}}
    /\ build_pattern = IF pattern_given THEN <<initial_matches>> ELSE <<>>
    /\ build_targets = IF pattern_given THEN <<Target(NoDir, build_pattern)>> ELSE <<>>
    /\ declared = full_graph
    /\ projects_to_include = {}
    /\ filter_pc = "start"

FilterIdle ==
    /\ build_targets = <<>>
    /\ build_pattern = <<>>
    /\ declared = NoGraph
    /\ full_graph = [u \in Units |-> <<>>]
    /\ pattern_given = FALSE
    /\ initial_matches = {}
    /\ projects_to_include = {}
    /\ filter_pc = "idle"

\* g.build_pattern is empty: every discovered project is included
IncludeAll ==
    /\ filter_pc = "start"
    /\ ~pattern_given
    /\ projects_to_include' = Units
    /\ filtered_graph' = Restrict(full_graph, Units)
    /\ filter_pc' = "filtered"
    /\ UNCHANGED <<build_targets, build_pattern, declared, full_graph, pattern_given,
                   initial_matches>>
    /\ UNCHANGED <<discovery_order, keys, original_keys, pass_i, sort_calls,
                   sorted_project_names, build_pc, cmake_lines>>
    /\ UNCHANGED <<installVars, indexVars>>

\* patterns are given: the matched projects and everything they depend on;
\* queue = list(initial_matches) comes in the iteration order of a set
IncludeMatching ==
    /\ filter_pc = "start"
    /\ pattern_given
    /\ \E queue \in Perms(initial_matches) :
         LET include == Closure(full_graph, queue, {}, {})
         IN  /\ projects_to_include' = include
             /\ filtered_graph' = Restrict(full_graph, include)
    /\ filter_pc' = "filtered"
    /\ UNCHANGED <<build_targets, build_pattern, declared, full_graph, pattern_given,
                   initial_matches>>
    /\ UNCHANGED <<discovery_order, keys, original_keys, pass_i, sort_calls,
                   sorted_project_names, build_pc, cmake_lines>>
    /\ UNCHANGED <<installVars, indexVars>>

NextFilter == IncludeAll \/ IncludeMatching

NextGraph == BuildGraph \/ IncludeAll

NextSetup == ProcessBuildTargets \/ BuildGraph \/ IncludeAll \/ IncludeMatching

(***************************************************************************)
(* commands/install.py: install_command                                    *)
(*                                                                         *)
(* The workspace (the precompiled cache, the source tree, the manifests,   *)
(* repositories.yaml, the user type) is fixed but unknown: each part is    *)
(* "?" until the code reads it for the first time, takes an arbitrary      *)
(* value then, and keeps it (the installer itself rewrites the cache).     *)
(* What GitHub answers (the release list, the assets of a release, the     *)
(* content of an archive, a failure) is an input of each request.          *)
(***************************************************************************)
\* "a" is the package the user works on (named on the command line, possibly
\* checked out in src/); "b" is a package that only manifests refer to
Pkgs == {"a", "b"}

Requested == {"a"}

Versions == 1..MaxVer

\* a requirement string: a leading name (NoName: no name characters at the
\* start of the text) followed by a tail of tokens; a token is a
\* comparator+version clause or other text ("word")
NoName == "@"

Tok(op, v) == [op |-> op, ver |-> v]

SpecStr(n, t) == [name |-> n, tail |-> t]

ValidOps == {">=", "<", "=="}

Tails == {<<>>, <<Tok(">=", MaxVer)>>, <<Tok("<", MaxVer)>>, <<Tok(">>", 1)>>,
          <<Tok("word", 0)>>}

TargetSpecs == {SpecStr(n, t) : n \in Requested, t \in Tails} \cup {SpecStr(NoName, <<>>)}

\* what a manifest may require: any package, or a newer version of "a"
DepSpecs == {SpecStr(n, <<>>) : n \in Pkgs}
                \cup {SpecStr(n, <<Tok(">=", MaxVer)>>) : n \in Requested}

SeqsUpTo(S, n) == UNION {[1..k -> S] : k \in 0..n}

\* the command line names no spec (install what src/ holds) or one spec; the
\* queue then holds that spec followed by the packages found in src/
TargetLists == {<<>>} \cup {<<s>> : s \in TargetSpecs}

\* a manifest declares no dependency or one
DepLists == {<<>>} \cup {<<d>> : d \in DepSpecs}

\* a package directory in release/install or in src
Entry(kind, v) == [kind |-> kind, version |-> v]

Unread == Entry("?", 0)

Absent == Entry("absent", 0)

\* a directory: without release.yaml, with an unparsable release.yaml, with a
\* release.yaml that has no version, with a release.yaml of version v
DirKinds == {Entry("nomanifest", 0), Entry("broken", 0), Entry("noversion", 0)}
                \cup {Entry("version", v) : v \in Versions}

CacheKinds == {Absent} \cup DirKinds

HasManifest(e) == e.kind \in {"noversion", "version"}

\* a release of the list: its tag and its prerelease flag. The assets are read
\* of the selected release only; whether they include
\* <name>-<os>-<version>-<arch>-<build_type>-<tag>.zip is an input of that step
Releases == [tag : Versions, prerelease : BOOLEAN]

ReleaseLists == {rl \in SeqsUpTo(Releases, MaxReleases) :
                    \A i, j \in 1..Len(rl) : rl[i].tag = rl[j].tag => i = j}

\* re.match(r"^\s*([a-zA-Z0-9_.-]+)\s*(.*)\s*$", target_spec)
NameMatch(s) == s.name # NoName

\* re.findall(r"[<>=!~]+[\d.]+", spec_str): the clauses, other text dropped
specifiers_list(tail) == SelectSeq(tail, LAMBDA t : t.op # "word")

\* SpecifierSet(...) raises on a clause whose operator is none of the comparators
SpecifierOk(tail) ==
    \A i \in 1..Len(specifiers_list(tail)) : specifiers_list(tail)[i].op \in ValidOps

ClauseHolds(c, v) ==
    CASE c.op = ">=" -> v >= c.ver
      [] c.op = "<"  -> v < c.ver
      [] c.op = "==" -> v = c.ver
      [] OTHER       -> FALSE

\* spec.contains(version); an empty spec_str stands for ">=0.0.0"
Contains(tail, v) ==
    IF tail = <<>> THEN v >= 0
    ELSE \A i \in 1..Len(specifiers_list(tail)) : ClauseHolds(specifiers_list(tail)[i], v)

\* mutant: a manifest without a version is never accepted
check_local_package_strict(e, tail) ==
    CASE e.kind = "absent"     -> "miss"
      [] e.kind = "broken"     -> "raise"
      [] e.kind = "nomanifest" -> IF tail = <<>> THEN "hit" ELSE "miss"
      [] e.kind = "noversion"  -> "miss"
      [] OTHER                 -> IF Contains(tail, e.version) THEN "hit" ELSE "miss"

\* mutant: the version found in the directory is never accepted
check_local_package_never(e, tail) ==
    CASE e.kind = "absent"     -> "miss"
      [] e.kind = "broken"     -> "raise"
      [] e.kind = "nomanifest" -> IF tail = <<>> THEN "hit" ELSE "miss"
      [] e.kind = "noversion"  -> IF tail = <<>> THEN "hit" ELSE "miss"
      [] OTHER                 -> "miss"

\* check_local_package(path, package_type): "hit" (True), "miss" (False) or
\* "raise" (yaml.safe_load raises; nothing catches it)
check_local_package(e, tail) ==
    CASE e.kind = "absent"     -> "miss"
      [] e.kind = "broken"     -> "raise"
      [] e.kind = "nomanifest" -> IF tail = <<>> THEN "hit" ELSE "miss"
      [] e.kind = "noversion"  -> IF tail = <<>> THEN "hit" ELSE "miss"
      [] OTHER                 -> IF Contains(tail, e.version) THEN "hit" ELSE "miss"

\* mutant: the first satisfying release wins
RECURSIVE BestFromFirst(_, _, _, _, _)
BestFromFirst(rl, i, tail, ut, best) ==
    IF i > Len(rl) THEN best
    ELSE IF rl[i].prerelease /\ ut # "devel" THEN BestFromFirst(rl, i + 1, tail, ut, best)
         ELSE IF Contains(tail, rl[i].tag) /\ best = 0
              THEN BestFromFirst(rl, i + 1, tail, ut, i)
              ELSE BestFromFirst(rl, i + 1, tail, ut, best)

\* the loop over releases_list: the index of best_release (0: None);
\* best_version is 0.0.0 until a release is taken
RECURSIVE BestFrom(_, _, _, _, _)
BestFrom(rl, i, tail, ut, best) ==
    IF i > Len(rl) THEN best
    ELSE LET best_version == IF best = 0 THEN 0 ELSE rl[best].tag
         IN  IF rl[i].prerelease /\ ut # "devel" THEN BestFrom(rl, i + 1, tail, ut, best)
             ELSE IF Contains(tail, rl[i].tag) /\ rl[i].tag >= best_version
                  THEN BestFrom(rl, i + 1, tail, ut, i)
                  ELSE BestFrom(rl, i + 1, tail, ut, best)

\* mutant: best_release is the first satisfying release of the list
best_release_first(rl, tail, ut) == BestFromFirst(rl, 1, tail, ut, 0)

best_release(rl, tail, ut) == BestFrom(rl, 1, tail, ut, 0)

\* the tags of the releases that satisfy the spec and pass the prerelease policy
Eligible(rl, tail, ut) ==
    {rl[i].tag : i \in {j \in 1..Len(rl) :
                          /\ Contains(tail, rl[j].tag)
                          /\ (~rl[j].prerelease \/ ut = "devel")}}

\* ---- the item at the head of the queue ----
\* mutant: the item is taken from the back of the queue (pop())
target_spec_back == install_queue[Len(install_queue)]

\* target_spec = install_queue.pop(0)
target_spec == Head(install_queue)

package_name == target_spec.name

spec_str == target_spec.tail

Popping == install_pc = "loop" /\ install_queue # <<>>

Resolvable == Popping /\ NameMatch(target_spec) /\ SpecifierOk(spec_str)

\* ---- first reads of the environment ----
CacheRead(p) == IF cache[p] = Unread THEN CacheKinds ELSE {cache[p]}

SrcRead(p) == IF src_tree[p] = Unread THEN DirKinds ELSE {src_tree[p]}

DepsRead(p, e) ==
    IF ~HasManifest(e) THEN {<<>>}
    ELSE IF manifest_deps[p].known THEN {manifest_deps[p].list} ELSE DepLists

DepsKnown(p, e, dl) ==
    IF HasManifest(e) THEN [manifest_deps EXCEPT ![p] = [known |-> TRUE, list |-> dl]]
    ELSE manifest_deps

RepoRead(p) == IF repos[p] = "?" THEN {"none", "badurl", "github"} ELSE {repos[p]}

UserTypeRead(rl) ==
    IF user_type = "?" /\ \E i \in 1..Len(rl) : rl[i].prerelease
    THEN {"user", "devel"} ELSE {user_type}

\* ---- bookkeeping ----
Satisfied == {"cache", "local", "remote"}

DeeperThan(d) == IF d < MaxDepth THEN d + 1 ELSE MaxDepth

\* the head is popped; what the step appends is one level deeper than the head
NoteDepths(q) ==
    depths' = [popped |-> Head(depths.queued),
               queued |-> Tail(depths.queued)
                            \o [i \in 1..(Len(q) - Len(install_queue) + 1)
                                   |-> DeeperThan(Head(depths.queued))]]

DepthsInit(q) == [popped |-> 0, queued |-> [i \in 1..Len(q) |-> 0]]

SetQueue(q) ==
    /\ install_queue' = q
    /\ install_pc' = "loop"
    /\ NoteDepths(q)

NoteLast(outcome, ver, net, enq, ce, rm, el) ==
    last' = [item |-> target_spec, outcome |-> outcome, version |-> ver, net |-> net,
             enq |-> enq, seen |-> package_name \in hist.resolved,
             cache_before |-> ce, removed |-> rm, eligible |-> el, run |-> run,
             tick |-> 1 - last.tick]

NoteHist(outcome, ver, netfail) ==
    hist' = [hist EXCEPT
               !.resolved = IF outcome \in Satisfied THEN @ \cup {package_name} ELSE @,
               !.first = IF outcome \in Satisfied /\ package_name \notin hist.resolved
                         THEN [@ EXCEPT ![package_name] = ver] ELSE @,
               !.net_failed = IF netfail THEN @ \cup {package_name} ELSE @,
               !.all_resolved = @ /\ outcome \in Satisfied \cup {"already"}]

NoItem == SpecStr(NoName, <<>>)

LastInit == [item |-> NoItem, outcome |-> "none", version |-> 0, net |-> 0, enq |-> <<>>,
             seen |-> FALSE, cache_before |-> Unread, removed |-> FALSE,
             eligible |-> {}, run |-> 0, tick |-> 0]

HistInit == [resolved |-> {}, first |-> [p \in Pkgs |-> 0], net_failed |-> {},
             all_resolved |-> TRUE, cache1 |-> [p \in Pkgs |-> Unread]]

\* the directories of src/ in the order iterdir() yields them, as bare names
LocalSrcQueues ==
    {[i \in 1..Len(o) |-> SpecStr(o[i], <<>>)] :
        o \in Perms({p \in Pkgs : src_tree[p] # Absent})}

InstallInit ==
    /\ targets \in TargetLists
    /\ src_tree \in {t \in [Pkgs -> {Absent, Unread}] : \A p \in Pkgs \ Requested : t[p] = Absent}
    /\ \E local_src_packages \in LocalSrcQueues :
           install_queue = targets \o local_src_packages
    /\ depths = DepthsInit(install_queue)
    /\ processed_packages = {}
    /\ is_successful = TRUE
    /\ install_pc = "loop"
    /\ cache = [p \in Pkgs |-> Unread]
    /\ manifest_deps = [p \in Pkgs |-> [known |-> FALSE, list |-> <<>>]]
    /\ repos = [p \in Pkgs |-> "?"]
    /\ user_type = "?"
    /\ run = 1
    /\ last = LastInit
    /\ hist = HistInit

InstallIdle ==
    /\ targets = <<>>
    /\ src_tree = [p \in Pkgs |-> Absent]
    /\ install_queue = <<>>
    /\ processed_packages = {}
    /\ is_successful = TRUE
    /\ install_pc = "idle"
    /\ cache = [p \in Pkgs |-> Unread]
    /\ manifest_deps = [p \in Pkgs |-> [known |-> FALSE, list |-> <<>>]]
    /\ repos = [p \in Pkgs |-> "?"]
    /\ user_type = "?"
    /\ run = 0
    /\ last = LastInit
    /\ hist = HistInit
    /\ depths = DepthsInit(<<>>)

\* the regular expression finds no name: warning, continue
SkipUnparsable ==
    /\ Popping
    /\ ~NameMatch(target_spec)
    /\ SetQueue(Tail(install_queue))
    /\ NoteLast("unparsable", 0, 0, <<>>, Unread, FALSE, {})
    /\ NoteHist("unparsable", 0, FALSE)
    /\ UNCHANGED <<targets, processed_packages, is_successful, cache, src_tree,
                   manifest_deps, repos, user_type, run>>
    /\ UNCHANGED <<sortVars, indexVars, filterVars>>

\* SpecifierSet raises: error, is_successful = False, continue
SkipInvalidSpecifier ==
    /\ Popping
    /\ NameMatch(target_spec)
    /\ ~SpecifierOk(spec_str)
    /\ is_successful' = FALSE
    /\ SetQueue(Tail(install_queue))
    /\ NoteLast("invalid_spec", 0, 0, <<>>, Unread, FALSE, {})
    /\ NoteHist("invalid_spec", 0, FALSE)
    /\ UNCHANGED <<targets, processed_packages, cache, src_tree,
                   manifest_deps, repos, user_type, run>>
    /\ UNCHANGED <<sortVars, indexVars, filterVars>>

\* yaml.safe_load raises inside check_local_package, which is called outside
\* any try block: the exception leaves install_command
ManifestRaises ==
    /\ Resolvable
    /\ \E ce \in CacheRead(package_name) :
         /\ cache' = [cache EXCEPT ![package_name] = ce]
         /\ \/ /\ check_local_package(ce, spec_str) = "raise"
               /\ UNCHANGED src_tree
            \/ /\ check_local_package(ce, spec_str) = "miss"
               /\ \E se \in SrcRead(package_name) :
                     /\ check_local_package(se, spec_str) = "raise"
                     /\ src_tree' = [src_tree EXCEPT ![package_name] = se]
         /\ NoteLast("raised", 0, 0, <<>>, ce, FALSE, {})
    /\ install_queue' = Tail(install_queue)
    /\ install_pc' = "crashed"
    /\ NoteDepths(Tail(install_queue))
    /\ NoteHist("raised", 0, FALSE)
    /\ UNCHANGED <<targets, processed_packages, is_successful,
                   manifest_deps, repos, user_type, run>>
    /\ UNCHANGED <<sortVars, indexVars, filterVars>>

\* mutant: the dependencies of a valid directory are not enqueued
extend_drop(queue, dependencies) == queue

\* if dependencies: install_queue.extend(dependencies)
extend(queue, dependencies) == queue \o dependencies

\* Priority 1: the precompiled directory is valid; its dependencies are enqueued
CacheHit ==
    /\ Resolvable
    /\ \E ce \in CacheRead(package_name) :
         /\ check_local_package(ce, spec_str) = "hit"
         /\ \E dependencies \in DepsRead(package_name, ce) :
              /\ cache' = [cache EXCEPT ![package_name] = ce]
              /\ manifest_deps' = DepsKnown(package_name, ce, dependencies)
              /\ SetQueue(extend(Tail(install_queue), dependencies))
              /\ NoteLast("cache", ce.version, 0, dependencies, ce, FALSE, {})
              /\ NoteHist("cache", ce.version, FALSE)
    /\ UNCHANGED <<targets, processed_packages, is_successful, src_tree,
                   repos, user_type, run>>
    /\ UNCHANGED <<sortVars, indexVars, filterVars>>

\* Priority 2: the source directory is valid; its dependencies are enqueued
LocalHit ==
    /\ Resolvable
    /\ \E ce \in CacheRead(package_name) :
         /\ check_local_package(ce, spec_str) = "miss"
         /\ \E se \in SrcRead(package_name) :
              /\ check_local_package(se, spec_str) = "hit"
              /\ \E dependencies \in DepsRead(package_name, se) :
                   /\ cache' = [cache EXCEPT ![package_name] = ce]
                   /\ src_tree' = [src_tree EXCEPT ![package_name] = se]
                   /\ manifest_deps' = DepsKnown(package_name, se, dependencies)
                   /\ SetQueue(extend(Tail(install_queue), dependencies))
                   /\ NoteLast("local", se.version, 0, dependencies, ce, FALSE, {})
                   /\ NoteHist("local", se.version, FALSE)
    /\ UNCHANGED <<targets, processed_packages, is_successful,
                   repos, user_type, run>>
    /\ UNCHANGED <<sortVars, indexVars, filterVars>>

\* the source directory exists but is not valid: "Skipping ... because it
\* exists in local source", continue
LocalConflict ==
    /\ Resolvable
    /\ \E ce \in CacheRead(package_name) :
         /\ check_local_package(ce, spec_str) = "miss"
         /\ \E se \in SrcRead(package_name) :
              /\ se # Absent
              /\ check_local_package(se, spec_str) = "miss"
              /\ cache' = [cache EXCEPT ![package_name] = ce]
              /\ src_tree' = [src_tree EXCEPT ![package_name] = se]
              /\ NoteLast("conflict", 0, 0, <<>>, ce, FALSE, {})
    /\ SetQueue(Tail(install_queue))
    /\ NoteHist("conflict", 0, FALSE)
    /\ UNCHANGED <<targets, processed_packages, is_successful,
                   manifest_deps, repos, user_type, run>>
    /\ UNCHANGED <<sortVars, indexVars, filterVars>>

\* mutant: the remote path is taken whether or not src/<name> exists
RemoteItemAnySrc(ce) == check_local_package(ce, spec_str) = "miss"

\* Priority 3 is reached: neither directory is valid and src/<name> is absent
RemoteItem(ce) ==
    /\ check_local_package(ce, spec_str) = "miss"
    /\ src_tree[package_name] = Absent

\* no entry (or no url) in repositories.yaml: warning, continue
NoRepository ==
    /\ Resolvable
    /\ \E ce \in CacheRead(package_name) :
         /\ RemoteItem(ce)
         /\ "none" \in RepoRead(package_name)
         /\ repos' = [repos EXCEPT ![package_name] = "none"]
         /\ cache' = [cache EXCEPT ![package_name] = ce]
         /\ NoteLast("no_repository", 0, 0, <<>>, ce, FALSE, {})
    /\ SetQueue(Tail(install_queue))
    /\ NoteHist("no_repository", 0, FALSE)
    /\ UNCHANGED <<targets, processed_packages, is_successful, src_tree,
                   manifest_deps, user_type, run>>
    /\ UNCHANGED <<sortVars, indexVars, filterVars>>

\* the url is not git@github.com:<owner>/<repo>.git: error, continue
BadRepositoryUrl ==
    /\ Resolvable
    /\ \E ce \in CacheRead(package_name) :
         /\ RemoteItem(ce)
         /\ "badurl" \in RepoRead(package_name)
         /\ repos' = [repos EXCEPT ![package_name] = "badurl"]
         /\ cache' = [cache EXCEPT ![package_name] = ce]
         /\ NoteLast("bad_url", 0, 0, <<>>, ce, FALSE, {})
    /\ is_successful' = FALSE
    /\ SetQueue(Tail(install_queue))
    /\ NoteHist("bad_url", 0, FALSE)
    /\ UNCHANGED <<targets, processed_packages, src_tree,
                   manifest_deps, user_type, run>>
    /\ UNCHANGED <<sortVars, indexVars, filterVars>>

\* session.get / raise_for_status of the release list raises: caught at the
\* end of the iteration, is_successful = False
FetchFailed ==
    /\ Resolvable
    /\ \E ce \in CacheRead(package_name) :
         /\ RemoteItem(ce)
         /\ "github" \in RepoRead(package_name)
         /\ repos' = [repos EXCEPT ![package_name] = "github"]
         /\ cache' = [cache EXCEPT ![package_name] = ce]
         /\ NoteLast("fetch_failed", 0, 1, <<>>, ce, FALSE, {})
    /\ is_successful' = FALSE
    /\ SetQueue(Tail(install_queue))
    /\ NoteHist("fetch_failed", 0, TRUE)
    /\ UNCHANGED <<targets, processed_packages, src_tree,
                   manifest_deps, user_type, run>>
    /\ UNCHANGED <<sortVars, indexVars, filterVars>>

\* mutant: the set of processed pairs is not consulted
NotProcessedAny(tag) == TRUE

\* not ((package_name, version) in processed_packages)
NotProcessed(tag) == <<package_name, tag>> \notin processed_packages

\* the release list was fetched; what follows depends on the selected release
Listed(ce, rl, ut) ==
    /\ RemoteItem(ce)
    /\ "github" \in RepoRead(package_name)
    /\ repos' = [repos EXCEPT ![package_name] = "github"]
    /\ user_type' = ut

\* no release satisfies the spec: error, is_successful = False, continue
NoSatisfyingRelease ==
    /\ Resolvable
    /\ \E ce \in {e \in CacheRead(package_name) : RemoteItem(e)} :
       \E rl \in {l \in ReleaseLists : "github" \in RepoRead(package_name)} :
       \E ut \in UserTypeRead(rl) :
         /\ Listed(ce, rl, ut)
         /\ cache' = [cache EXCEPT ![package_name] = ce]
         /\ best_release(rl, spec_str, ut) = 0
         /\ NoteLast("no_release", 0, 1, <<>>, ce, FALSE, Eligible(rl, spec_str, ut))
    /\ is_successful' = FALSE
    /\ SetQueue(Tail(install_queue))
    /\ NoteHist("no_release", 0, FALSE)
    /\ UNCHANGED <<targets, processed_packages, src_tree,
                   manifest_deps, run>>
    /\ UNCHANGED <<sortVars, indexVars, filterVars>>

\* (package_name, version) in processed_packages: continue
AlreadyProcessed ==
    /\ Resolvable
    /\ \E ce \in {e \in CacheRead(package_name) : RemoteItem(e)} :
       \E rl \in {l \in ReleaseLists : "github" \in RepoRead(package_name)} :
       \E ut \in UserTypeRead(rl) :
         LET b == best_release(rl, spec_str, ut)
         IN  /\ Listed(ce, rl, ut)
             /\ cache' = [cache EXCEPT ![package_name] = ce]
             /\ b # 0
             /\ ~NotProcessed(rl[b].tag)
             /\ NoteLast("already", rl[b].tag, 1, <<>>, ce, FALSE, Eligible(rl, spec_str, ut))
             /\ NoteHist("already", rl[b].tag, FALSE)
    /\ SetQueue(Tail(install_queue))
    /\ UNCHANGED <<targets, processed_packages, is_successful, src_tree,
                   manifest_deps, run>>
    /\ UNCHANGED <<sortVars, indexVars, filterVars>>

\* mutant: the install directory is removed and recreated before the assets of
\* the selected release are looked at
AssetMissingRemoves ==
    /\ Resolvable
    /\ \E ce \in {e \in CacheRead(package_name) : RemoteItem(e)} :
       \E rl \in {l \in ReleaseLists : "github" \in RepoRead(package_name)} :
       \E ut \in UserTypeRead(rl) :
         LET b == best_release(rl, spec_str, ut)
         IN  /\ Listed(ce, rl, ut)
             /\ cache' = [cache EXCEPT ![package_name] = Entry("nomanifest", 0)]
             /\ b # 0
             /\ NotProcessed(rl[b].tag)
             /\ processed_packages' = processed_packages \cup {<<package_name, rl[b].tag>>}
             /\ \E asset_found \in BOOLEAN : ~asset_found
             /\ NoteLast("no_asset", rl[b].tag, 1, <<>>, ce, TRUE, Eligible(rl, spec_str, ut))
             /\ NoteHist("no_asset", rl[b].tag, FALSE)
    /\ is_successful' = FALSE
    /\ SetQueue(Tail(install_queue))
    /\ UNCHANGED <<targets, src_tree, manifest_deps, run>>
    /\ UNCHANGED <<sortVars, indexVars, filterVars>>

\* the selected release has no asset of the expected name: error, continue
AssetMissing ==
    /\ Resolvable
    /\ \E ce \in {e \in CacheRead(package_name) : RemoteItem(e)} :
       \E rl \in {l \in ReleaseLists : "github" \in RepoRead(package_name)} :
       \E ut \in UserTypeRead(rl) :
         LET b == best_release(rl, spec_str, ut)
         IN  /\ Listed(ce, rl, ut)
             /\ cache' = [cache EXCEPT ![package_name] = ce]
             /\ b # 0
             /\ NotProcessed(rl[b].tag)
             /\ processed_packages' = processed_packages \cup {<<package_name, rl[b].tag>>}
             /\ \E asset_found \in BOOLEAN : ~asset_found
             /\ NoteLast("no_asset", rl[b].tag, 1, <<>>, ce, FALSE, Eligible(rl, spec_str, ut))
             /\ NoteHist("no_asset", rl[b].tag, FALSE)
    /\ is_successful' = FALSE
    /\ SetQueue(Tail(install_queue))
    /\ UNCHANGED <<targets, src_tree, manifest_deps, run>>
    /\ UNCHANGED <<sortVars, indexVars, filterVars>>

\* the install directory is removed and recreated, then the download raises:
\* caught at the end of the iteration, is_successful = False
DownloadFailed ==
    /\ Resolvable
    /\ \E ce \in {e \in CacheRead(package_name) : RemoteItem(e)} :
       \E rl \in {l \in ReleaseLists : "github" \in RepoRead(package_name)} :
       \E ut \in UserTypeRead(rl) :
         LET b == best_release(rl, spec_str, ut)
         IN  /\ Listed(ce, rl, ut)
             /\ b # 0
             /\ NotProcessed(rl[b].tag)
             /\ processed_packages' = processed_packages \cup {<<package_name, rl[b].tag>>}
             /\ \E asset_found \in BOOLEAN : asset_found
             /\ cache' = [cache EXCEPT ![package_name] = Entry("nomanifest", 0)]
             /\ NoteLast("download_failed", rl[b].tag, 2, <<>>, ce, TRUE, Eligible(rl, spec_str, ut))
             /\ NoteHist("download_failed", rl[b].tag, TRUE)
    /\ is_successful' = FALSE
    /\ SetQueue(Tail(install_queue))
    /\ UNCHANGED <<targets, src_tree, manifest_deps, run>>
    /\ UNCHANGED <<sortVars, indexVars, filterVars>>

\* the install directory is removed and recreated, the asset is downloaded
\* and extracted, and the dependencies of the installed release.yaml are enqueued
Installed ==
    /\ Resolvable
    /\ \E ce \in {e \in CacheRead(package_name) : RemoteItem(e)} :
       \E rl \in {l \in ReleaseLists : "github" \in RepoRead(package_name)} :
       \E ut \in UserTypeRead(rl) :
         LET b == best_release(rl, spec_str, ut)
         IN  /\ Listed(ce, rl, ut)
             /\ b # 0
             /\ NotProcessed(rl[b].tag)
             /\ processed_packages' = processed_packages \cup {<<package_name, rl[b].tag>>}
             /\ \E asset_found \in BOOLEAN : asset_found
             /\ \E zip_has_manifest \in BOOLEAN :
                  LET installed == IF zip_has_manifest THEN Entry("version", rl[b].tag)
                                   ELSE Entry("nomanifest", 0)
                  IN  /\ cache' = [cache EXCEPT ![package_name] = installed]
                      /\ \E dependencies \in DepsRead(package_name, installed) :
                           /\ manifest_deps' = DepsKnown(package_name, installed, dependencies)
                           /\ SetQueue(extend(Tail(install_queue), dependencies))
                           /\ NoteLast("remote", rl[b].tag, 2, dependencies, ce, TRUE, Eligible(rl, spec_str, ut))
                           /\ NoteHist("remote", rl[b].tag, FALSE)
    /\ UNCHANGED <<targets, is_successful, src_tree, run>>
    /\ UNCHANGED <<sortVars, indexVars, filterVars>>

\* while install_queue: the queue is empty, the loop ends and the result is printed
InstallFinished ==
    /\ install_pc = "loop"
    /\ install_queue = <<>>
    /\ install_pc' = "done"
    /\ UNCHANGED <<targets, install_queue, processed_packages, is_successful, cache,
                   src_tree, manifest_deps, repos, user_type,
                   run, last, hist, depths>>
    /\ UNCHANGED <<sortVars, indexVars, filterVars>>

\* install is invoked again with the same specs on the workspace the first
\* run left (after a run in which every item was resolved)
InstallAgain ==
    /\ install_pc = "done"
    /\ run = 1
    /\ hist.all_resolved
    /\ run' = 2
    /\ \E local_src_packages \in LocalSrcQueues :
           /\ install_queue' = targets \o local_src_packages
           /\ depths' = DepthsInit(targets \o local_src_packages)
    /\ processed_packages' = {}
    /\ is_successful' = TRUE
    /\ install_pc' = "loop"
    /\ last' = LastInit
    /\ hist' = [HistInit EXCEPT !.cache1 = cache]
    /\ UNCHANGED <<targets, cache, src_tree, manifest_deps, repos, user_type>>
    /\ UNCHANGED <<sortVars, indexVars, filterVars>>

\* install_cli_command: the status the process ends with. install_command
\* returns nothing and the command never calls sys.exit, so the status is 0
\* unless an exception leaves install_command
install_exit_code == IF install_pc = "crashed" THEN 1 ELSE 0

NextInstall ==
    \/ SkipUnparsable \/ SkipInvalidSpecifier \/ ManifestRaises
    \/ CacheHit \/ LocalHit \/ LocalConflict
    \/ NoRepository \/ BadRepositoryUrl \/ FetchFailed
    \/ NoSatisfyingRelease \/ AlreadyProcessed \/ AssetMissing
    \/ DownloadFailed \/ Installed
    \/ InstallFinished \/ InstallAgain

(***************************************************************************)
(* The local index: index_local_command and its two thread pools.          *)
(***************************************************************************)
\* a version string as parse_package_yaml returns it: "ERROR", "N/A" (no
\* version key), a string packaging.Version rejects ("bad"), or v.0.0
VersionStr(kind, v) == [kind |-> kind, v |-> v]

ParsedVersions == {VersionStr("N/A", 0), VersionStr("bad", 0)}
                      \cup {VersionStr("version", v) : v \in Versions}

\* the dependency strings a manifest may list
IndexDepSpecs == {SpecStr(n, t) : n \in Pkgs, t \in Tails} \cup {SpecStr(NoName, <<>>)}

\* a manifest lists no dependency or one
IndexDepLists == {<<>>} \cup {<<d>> : d \in IndexDepSpecs}

NoManifest == [broken |-> FALSE, version |-> VersionStr("N/A", 0), deps |-> <<>>]

\* a release.yaml: unparsable (or not a mapping), or a mapping with an optional
\* version and an optional dependency list
Manifests == {[broken |-> TRUE, version |-> VersionStr("N/A", 0), deps |-> <<>>]}
                 \cup {[broken |-> FALSE, version |-> vs, deps |-> dl] :
                          vs \in ParsedVersions, dl \in IndexDepLists}

\* parse_package_yaml(pkg_name, yaml_path): (name, version, raw deps), or
\* (name, "ERROR", [reason]) when the file cannot be read as a mapping
parse_package_yaml(pkg_name) ==
    IF manifests[pkg_name].broken
    THEN [name |-> pkg_name, ver |-> VersionStr("ERROR", 0), deps |-> <<>>]
    ELSE [name |-> pkg_name, ver |-> manifests[pkg_name].version,
          deps |-> manifests[pkg_name].deps]

\* mutant: only the results with version "ERROR" are left out
RECURSIVE BuildPackageDbNonError(_, _, _)
BuildPackageDbNonError(results, i, db) ==
    IF i > Len(results) THEN db
    ELSE IF results[i].ver.kind # "ERROR"
         THEN BuildPackageDbNonError(results, i + 1,
                  [n \in DOMAIN db \cup {results[i].name} |->
                      IF n = results[i].name THEN results[i].ver ELSE db[n]])
         ELSE BuildPackageDbNonError(results, i + 1, db)

\* the loop that fills package_db from all_parse_results
RECURSIVE BuildPackageDb(_, _, _)
BuildPackageDb(results, i, db) ==
    IF i > Len(results) THEN db
    ELSE IF results[i].ver.kind \notin {"ERROR", "N/A"}
         THEN BuildPackageDb(results, i + 1,
                  [n \in DOMAIN db \cup {results[i].name} |->
                      IF n = results[i].name THEN results[i].ver ELSE db[n]])
         ELSE BuildPackageDb(results, i + 1, db)

EmptyDb == [n \in {} |-> VersionStr("N/A", 0)]

\* Requirement(dep_spec_string) parses: a name followed by well-formed clauses
RequirementOk(s) ==
    /\ NameMatch(s)
    /\ \A i \in 1..Len(s.tail) : s.tail[i].op \in ValidOps

\* actual_version in req.specifier
InSpecifier(tail, v) == \A i \in 1..Len(tail) : ClauseHolds(tail[i], v)

\* mutant: a dependency whose recorded version is not a version is reported
\* as a wrong version
dep_status_four(s, db) ==
    IF ~RequirementOk(s) THEN "Invalid Spec"
    ELSE IF s.name \notin DOMAIN db THEN "Missing"
    ELSE IF db[s.name].kind = "version" /\ InSpecifier(s.tail, db[s.name].v) THEN "OK"
    ELSE "Wrong Version"

\* the body of the loop over deps_list in process_and_color_deps
dep_status(s, db) ==
    IF ~RequirementOk(s) THEN "Invalid Spec"
    ELSE IF s.name \notin DOMAIN db THEN "Missing"
    ELSE IF db[s.name].kind # "version" THEN "Dep has Invalid Ver"
    ELSE IF InSpecifier(s.tail, db[s.name].v) THEN "OK"
    ELSE "Wrong Version"

\* process_and_color_deps(pkg_name, version, deps_list, origin, package_db)
process_and_color_deps(r, db) ==
    IF r.ver.kind = "ERROR"
    THEN [name |-> r.name, ver |-> r.ver, deps_str |-> "error", statuses |-> <<>>]
    ELSE IF r.deps = <<>>
    THEN [name |-> r.name, ver |-> r.ver, deps_str |-> "None", statuses |-> <<>>]
    ELSE [name |-> r.name, ver |-> r.ver, deps_str |-> "colored",
          statuses |-> [i \in 1..Len(r.deps) |->
                           [spec |-> r.deps[i], status |-> dep_status(r.deps[i], db)]]]

\* the parse results by name
ResultOf(p) == all_parse_results[CHOOSE i \in 1..Len(all_parse_results) :
                                    all_parse_results[i].name = p]

NameOrder == <<"a", "b">>

\* mutant: the rows are printed in the order the workers completed
SortByNameSkipped(rows, k) == rows

\* final_print_data.sort(key=lambda x: x[0])
RECURSIVE SortByName(_, _)
SortByName(rows, k) ==
    IF k > Len(NameOrder) THEN <<>>
    ELSE SelectSeq(rows, LAMBDA r : r.name = NameOrder[k]) \o SortByName(rows, k + 1)

IndexInit ==
    /\ targets_to_process \in SUBSET Pkgs
    /\ manifests \in {m \in [Pkgs -> Manifests] :
                        \A p \in Pkgs \ targets_to_process : m[p] = NoManifest}
    /\ index_pc = "start"
    /\ parse_pc = [p \in Pkgs |-> "none"]
    /\ all_parse_results = <<>>
    /\ package_db = EmptyDb
    /\ val_pc = [p \in Pkgs |-> "none"]
    /\ final_print_data = <<>>

IndexIdle ==
    /\ targets_to_process = {}
    /\ manifests = [p \in Pkgs |-> NoManifest]
    /\ index_pc = "idle"
    /\ parse_pc = [p \in Pkgs |-> "none"]
    /\ all_parse_results = <<>>
    /\ package_db = EmptyDb
    /\ val_pc = [p \in Pkgs |-> "none"]
    /\ final_print_data = <<>>

\* "Found no packages with release.yaml files in specified locations.": return
NoTargets ==
    /\ index_pc = "start"
    /\ targets_to_process = {}
    /\ index_pc' = "done"
    /\ UNCHANGED <<targets_to_process, manifests, parse_pc, all_parse_results,
                   package_db, val_pc, final_print_data>>
    /\ UNCHANGED <<sortVars, installVars, filterVars>>

\* run_parallel_parse: one parse_package_yaml future is submitted per target
SubmitParse ==
    /\ index_pc = "start"
    /\ targets_to_process # {}
    /\ index_pc' = "parse"
    /\ parse_pc' = [p \in Pkgs |-> IF p \in targets_to_process THEN "queued" ELSE "none"]
    /\ UNCHANGED <<targets_to_process, manifests, all_parse_results,
                   package_db, val_pc, final_print_data>>
    /\ UNCHANGED <<sortVars, installVars, filterVars>>

\* a pool thread takes the future of package p
ParseStart(p) ==
    /\ parse_pc[p] = "queued"
    /\ parse_pc' = [parse_pc EXCEPT ![p] = "running"]
    /\ UNCHANGED <<targets_to_process, manifests, index_pc, all_parse_results,
                   package_db, val_pc, final_print_data>>
    /\ UNCHANGED <<sortVars, installVars, filterVars>>

\* parse_package_yaml returns (it catches every exception itself)
ParseFinish(p) ==
    /\ parse_pc[p] = "running"
    /\ parse_pc' = [parse_pc EXCEPT ![p] = "finished"]
    /\ UNCHANGED <<targets_to_process, manifests, index_pc, all_parse_results,
                   package_db, val_pc, final_print_data>>
    /\ UNCHANGED <<sortVars, installVars, filterVars>>

\* as_completed yields the future of p; its result is appended
ParseCollect(p) ==
    /\ index_pc = "parse"
    /\ parse_pc[p] = "finished"
    /\ parse_pc' = [parse_pc EXCEPT ![p] = "collected"]
    /\ all_parse_results' = Append(all_parse_results, parse_package_yaml(p))
    /\ UNCHANGED <<targets_to_process, manifests, index_pc,
                   package_db, val_pc, final_print_data>>
    /\ UNCHANGED <<sortVars, installVars, filterVars>>

\* mutant: run_parallel_parse returns after the first completed future
Phase1DrainedEarly == \E p \in targets_to_process : parse_pc[p] = "collected"

\* as_completed is exhausted and the "with ThreadPoolExecutor()" block is left
Phase1Drained == \A p \in targets_to_process : parse_pc[p] = "collected"

\* run_parallel_parse returns; package_db is built; run_parallel_validation
\* submits one process_and_color_deps future per parse result
BuildDbAndSubmit ==
    /\ index_pc = "parse"
    /\ Phase1Drained
    /\ package_db' = BuildPackageDb(all_parse_results, 1, EmptyDb)
    /\ val_pc' = [p \in Pkgs |->
                    IF \E i \in 1..Len(all_parse_results) : all_parse_results[i].name = p
                    THEN "queued" ELSE "none"]
    /\ index_pc' = "validate"
    /\ UNCHANGED <<targets_to_process, manifests, parse_pc, all_parse_results,
                   final_print_data>>
    /\ UNCHANGED <<sortVars, installVars, filterVars>>

ValidateStart(p) ==
    /\ val_pc[p] = "queued"
    /\ val_pc' = [val_pc EXCEPT ![p] = "running"]
    /\ UNCHANGED <<targets_to_process, manifests, index_pc, parse_pc, all_parse_results,
                   package_db, final_print_data>>
    /\ UNCHANGED <<sortVars, installVars, filterVars>>

ValidateFinish(p) ==
    /\ val_pc[p] = "running"
    /\ val_pc' = [val_pc EXCEPT ![p] = "finished"]
    /\ UNCHANGED <<targets_to_process, manifests, index_pc, parse_pc, all_parse_results,
                   package_db, final_print_data>>
    /\ UNCHANGED <<sortVars, installVars, filterVars>>

\* as_completed yields the future of p; its row is appended
ValidateCollect(p) ==
    /\ index_pc = "validate"
    /\ val_pc[p] = "finished"
    /\ val_pc' = [val_pc EXCEPT ![p] = "collected"]
    /\ final_print_data' = Append(final_print_data,
                                  process_and_color_deps(ResultOf(p), package_db))
    /\ UNCHANGED <<targets_to_process, manifests, index_pc, parse_pc, all_parse_results,
                   package_db>>
    /\ UNCHANGED <<sortVars, installVars, filterVars>>

\* run_parallel_validation returns; the rows are sorted by name and printed
PrintResults ==
    /\ index_pc = "validate"
    /\ \A p \in Pkgs : val_pc[p] \in {"none", "collected"}
    /\ final_print_data' = SortByName(final_print_data, 1)
    /\ index_pc' = "done"
    /\ UNCHANGED <<targets_to_process, manifests, parse_pc, all_parse_results,
                   package_db, val_pc>>
    /\ UNCHANGED <<sortVars, installVars, filterVars>>

NextIndex ==
    \/ NoTargets \/ SubmitParse
    \/ \E p \in Pkgs : ParseStart(p) \/ ParseFinish(p) \/ ParseCollect(p)
    \/ BuildDbAndSubmit
    \/ \E p \in Pkgs : ValidateStart(p) \/ ValidateFinish(p) \/ ValidateCollect(p)
    \/ PrintResults

(***************************************************************************)
(* Specifications: one per engine, the other engines idle.                 *)
(***************************************************************************)
InitSort ==
    /\ SortInit
    /\ FilterIdle
    /\ InstallIdle
    /\ IndexIdle

SpecSort == InitSort /\ [][NextSort]_vars

InitSortChain ==
    /\ SortChainInit
    /\ FilterIdle
    /\ InstallIdle
    /\ IndexIdle

SpecSortChain == InitSortChain /\ [][NextSort]_vars

InitInstall ==
    /\ InstallInit
    /\ SortIdle
    /\ FilterIdle
    /\ IndexIdle

SpecInstall == InitInstall /\ [][NextInstall]_vars

\* the loop is sequential: whenever a step is possible, one is taken
SpecInstallFair == SpecInstall /\ WF_vars(NextInstall)

InitIndex ==
    /\ IndexInit
    /\ SortIdle
    /\ FilterIdle
    /\ InstallIdle

InitFilter ==
    /\ FilterInit
    /\ SortIdle
    /\ InstallIdle
    /\ IndexIdle

SpecFilter == InitFilter /\ [][NextFilter]_vars

InitGraph ==
    /\ GraphInit
    /\ SortIdle
    /\ InstallIdle
    /\ IndexIdle

SpecGraph == InitGraph /\ [][NextGraph]_vars

InitSetup ==
    /\ SetupInit
    /\ SortIdle
    /\ InstallIdle
    /\ IndexIdle

SpecSetup == InitSetup /\ [][NextSetup]_vars

SpecIndex == InitIndex /\ [][NextIndex]_vars

(***************************************************************************)
(* Graph notions used by the properties.                                   *)
(***************************************************************************)
DepEdge(graph, u, v) == v \in Range(graph[u])

\* units reachable from u through at least one edge
RECURSIVE ReachFrom(_, _, _)
ReachFrom(graph, front, seen) ==
    LET nxt == {v \in DOMAIN graph : \E u \in front : DepEdge(graph, u, v)} \ seen
    IN  IF nxt = {} THEN seen ELSE ReachFrom(graph, nxt, seen \cup nxt)

Reach(graph, u) == ReachFrom(graph, {u}, {})

\* a cycle through at least two distinct units (A -> B -> ... -> A)
HasProperCycle(graph) ==
    \E u, v \in DOMAIN graph : u # v /\ v \in Reach(graph, u) /\ u \in Reach(graph, v)

HasSelfLoop(graph) == \E u \in DOMAIN graph : DepEdge(graph, u, u)

Acyclic(graph) == ~HasProperCycle(graph) /\ ~HasSelfLoop(graph)

DepsFirst(graph, order) ==
    \A u \in DOMAIN graph : \A d \in Range(graph[u]) :
        Index(order, d) < Index(order, u)

(***************************************************************************)
(* Claims about the build order.                                           *)
(***************************************************************************)

\* C1: whenever the dependency graph of the included units contains a cycle
\* (here: one through at least two distinct units, such as A -> B -> A),
\* topological_sort never returns an order; the run ends in the fatal
\* cyclic-dependency exit.
C1_CycleIsFatal ==
    HasProperCycle(filtered_graph) => sort_calls = 0 /\ build_pc \in {"sort", "exit1"}

\* C2: whenever topological_sort has returned a list for an acyclic graph,
\* every unit stands after all of its dependencies in that list, whatever
\* the discovery order was.
C2_DepsBeforeDependents ==
    (sort_calls >= 1 /\ Acyclic(filtered_graph))
        => DepsFirst(filtered_graph, sorted_project_names)

\* C2 witness: edges 1 -> 2 -> 3 discovered in the order 1, 2, 3 (every unit
\* ahead of its dependency) and returned as 3 before 2 before 1.
C2_Witness ==
    /\ filtered_graph[1] = <<2>> /\ filtered_graph[2] = <<3>> /\ filtered_graph[3] = <<>>
    /\ Index(discovery_order, 1) < Index(discovery_order, 2)
    /\ Index(discovery_order, 2) < Index(discovery_order, 3)
    /\ sort_calls >= 1
    /\ Index(sorted_project_names, 3) < Index(sorted_project_names, 2)
    /\ Index(sorted_project_names, 2) < Index(sorted_project_names, 1)

\* what the patterns select: the matched projects and every project reachable
\* from one of them through dependency edges of the full graph
Selected ==
    IF pattern_given
    THEN initial_matches \cup UNION {Reach(full_graph, m) : m \in initial_matches}
    ELSE Units

C19_NoOutputOnCycle ==
    build_pc = "exit1" => cmake_lines = <<>>

\* C19 witness: the exit was taken after the last pass, for a cycle through
\* three units
C19_Witness ==
    /\ build_pc = "exit1"
    /\ pass_i = MaxPasses - 1
    /\ HasProperCycle(filtered_graph)

\* C24: once build_dependency_graph has returned, the dependencies of every
\* project are exactly the names its CMakeLists.txt refers to that are
\* discovered projects: a name that is no project is dropped (and the run goes
\* on), a name that is a project is kept.
C24_EdgesAreDiscoveredUnits ==
    filter_pc \in {"start", "filtered"}
        => /\ DOMAIN full_graph = Units
           /\ \A u \in Units : Range(full_graph[u]) = Range(declared[u]) \cap Units

\* C24 witness: project 1 refers to a name that is no project and to project
\* 2; the graph keeps the edge to 2 only
C24_Witness ==
    /\ filter_pc = "start"
    /\ Range(declared[1]) = {External, 2}
    /\ full_graph[1] = <<2>>

\* C27: the cyclic-dependency exit is taken for graphs that have a cycle only:
\* for an acyclic graph the passes converge within the limit, whatever the
\* number of units, the length of the chains and the initial order.
C27_NoFalseCycle ==
    build_pc = "exit1" => ~Acyclic(filtered_graph)

\* a list holds every unit of the graph exactly once
PermutationOf(order, graph) ==
    /\ Len(order) = Cardinality(DOMAIN graph)
    /\ Range(order) = DOMAIN graph

\* C28: at every step of topological_sort the working list holds every
\* included unit exactly once, and so does every list that is returned or
\* written.
C28_KeysStayPermutation ==
    build_pc # "idle"
        => /\ PermutationOf(keys, filtered_graph)
           /\ PermutationOf(sorted_project_names, filtered_graph)
           /\ build_pc = "written" => PermutationOf(cmake_lines, filtered_graph)

\* C28 witness: the order 1, 2, 3 was turned around by the moves and written
C28_Witness ==
    /\ build_pc = "written"
    /\ discovery_order = <<1, 2, 3>>
    /\ cmake_lines = <<3, 2, 1>>

\* targets were given and none of them has a pattern in the maps
NoneMapped ==
    /\ build_targets # <<>>
    /\ \A i \in 1..Len(build_targets) : build_targets[i].maps_entry = <<>>

\* the maps are consulted: one target, or src/<first target> does not exist
MapsConsulted == Len(build_targets) <= 1 \/ ~build_targets[1].src_dir.exists

\* the pattern list is empty and the selection is the one of a run without targets
BuildsEverything ==
    /\ filter_pc # "targets" => build_pattern = <<>>
    /\ filter_pc = "filtered"
          => /\ projects_to_include = Units
             /\ DOMAIN filtered_graph = Units
             /\ \A u \in Units : filtered_graph[u] = full_graph[u]

\* C30 as stated: if targets are given and none of them maps to a pattern, the
\* pattern list is empty and every discovered project is included.
C30_UnmappedBuildsAll == NoneMapped => BuildsEverything

\* C30 amended: the same, provided the maps are consulted at all (with several
\* targets of which the first names a directory of src/, the patterns are the
\* subdirectories of that directory instead).
C30_UnmappedBuildsAllViaMaps == (NoneMapped /\ MapsConsulted) => BuildsEverything

\* C30 witness: two targets without a map entry, a workspace with a
\* dependency between projects, every project included
C30_Witness ==
    /\ filter_pc = "filtered"
    /\ Len(build_targets) = 2
    /\ NoneMapped
    /\ MapsConsulted
    /\ projects_to_include = Units
    /\ \E u \in Units : full_graph[u] # <<>>

(***************************************************************************)
(* Claims about the installer.                                             *)
(***************************************************************************)
SetMax(S) == CHOOSE m \in S : \A x \in S : x <= m

\* the loop has handled at least one item whose cache directory it looked at
Probed == last.outcome # "none" /\ last.cache_before.kind # "?"

\* C3: when the item just handled names a package whose precompiled directory
\* holds a release.yaml with a version that satisfies the item's constraint,
\* the item was resolved from the cache at that version and no network
\* request was made for it.
C3_CacheHitNoNetwork ==
    (/\ Probed
     /\ last.cache_before.kind = "version"
     /\ Contains(last.item.tail, last.cache_before.version))
        => /\ last.outcome = "cache"
           /\ last.version = last.cache_before.version
           /\ last.net = 0

\* C3 witness: a cache hit at a version below the highest one a remote could
\* offer, for an unconstrained item
C3_Witness ==
    /\ last.outcome = "cache"
    /\ last.item.tail = <<>>
    /\ last.cache_before.kind = "version"
    /\ last.cache_before.version < MaxVer

\* C4: in a repeated run (started after a run in which every item was
\* resolved) no item causes a network call, and every (name, version) pair
\* installed after the first run is still installed.
C4_RerunIsIdempotent ==
    run = 2 => /\ last.net = 0
               /\ \A p \in Pkgs : hist.cache1[p].kind = "version" => cache[p] = hist.cache1[p]

\* C5: an item whose package name was already resolved earlier in the run is
\* skipped: no network call, no install, no dependency enqueued.
C5_FirstResolutionWins ==
    last.seen => /\ last.net = 0
                 /\ ~last.removed
                 /\ last.enq = <<>>
                 /\ last.outcome \notin Satisfied

\* C6: the install run terminates: eventually the loop has ended.
C6_InstallTerminates == <>(install_pc \in {"done", "crashed"})

\* C9: on the remote path the selected version is the highest among the
\* releases that satisfy the constraint and pass the prerelease policy, in
\* whatever order the list came; none is selected exactly when there is none.
C9_BestSatisfyingRelease ==
    /\ last.outcome \in {"remote", "download_failed", "no_asset", "already"}
          => last.eligible # {} /\ last.version = SetMax(last.eligible)
    /\ last.outcome = "no_release" => last.eligible = {}

\* C9 witness: a dependency was installed from the remote, with more than one
\* release to choose from
C9_Witness ==
    /\ last.outcome = "remote"
    /\ last.item \notin Range(targets)
    /\ Cardinality(last.eligible) >= 2
    /\ last.version = MaxVer

\* C10: the loop ends only when the queue is empty.
C10_FailureNeverStopsLoop ==
    install_pc \in {"done", "crashed"} => install_queue = <<>>

\* the outcomes that leave an item failed, missing or conflicting
FailedOutcomes == {"invalid_spec", "conflict", "no_repository", "bad_url", "fetch_failed",
                   "no_release", "no_asset", "download_failed"}

\* C11: once an item has ended failed, missing (no repository, no satisfying
\* release) or conflicting, the aggregate success flag is false (the flag is
\* never set back within a run, so this is its value at the end of the run).
C11_FailureClearsFlag ==
    last.outcome \in FailedOutcomes => ~is_successful

\* C12: the install entry point ends with status 0 only if no item failed.
C12_ExitCodeReflectsFailures ==
    (install_pc = "done" /\ install_exit_code = 0) => is_successful

\* C13: when the precompiled directory does not satisfy the item and src/<name>
\* exists without satisfying it either, the item ends as a conflict: no
\* release list is fetched, nothing is removed, downloaded or installed.
C13_ConflictNeverGoesRemote ==
    (/\ Probed
     /\ check_local_package(last.cache_before, last.item.tail) = "miss"
     /\ src_tree[last.item.name].kind \notin {"?", "absent"}
     /\ check_local_package(src_tree[last.item.name], last.item.tail) = "miss")
        => /\ last.outcome = "conflict"
           /\ last.net = 0
           /\ ~last.removed

\* C13 witness: src/<name> holds a version that the constrained item rejects
C13_Witness ==
    /\ last.outcome = "conflict"
    /\ last.item.tail # <<>>
    /\ src_tree[last.item.name].kind = "version"
    /\ ~Contains(last.item.tail, src_tree[last.item.name].version)

\* C14: only releases that carry the expected asset are candidates, so the
\* selected release always has it: no item ends with "asset not found" for the
\* release that was selected.
C14_SelectedReleaseHasAsset ==
    last.outcome # "no_asset"

\* an item that is not a name followed by comparator+version clauses
Malformed(s) ==
    \/ s.name = NoName
    \/ \E i \in 1..Len(s.tail) : s.tail[i].op \notin ValidOps

\* C15: a malformed item is skipped and marks the run unsuccessful.
C15_MalformedMarksFailure ==
    (last.outcome # "none" /\ Malformed(last.item))
        => /\ last.outcome \in {"unparsable", "invalid_spec"}
           /\ ~is_successful

\* C16: once a network call for a package has failed in this run, handling a
\* later item of that package makes no network call.
C16_NoRetryAfterNetworkFailure ==
    [][(/\ install_pc = "loop"
        /\ install_queue # <<>>
        /\ Head(install_queue).name \in hist.net_failed)
          => last'.net = 0]_vars

\* C17: handling an item never downloads or extracts a (name, version) pair
\* that is already in processed_packages.
C17_PairResolvedOnce ==
    [][(/\ install_pc = "loop"
        /\ install_queue # <<>>
        /\ last'.outcome \in {"remote", "download_failed"})
          => <<last'.item.name, last'.version>> \notin processed_packages]_vars

\* C17 witness: an item was dropped because its pair was already processed
C17_Witness ==
    /\ last.outcome = "already"
    /\ <<last.item.name, last.version>> \in processed_packages

\* the directory is a hit as the claim words it
ValidAsClaimed(e, tail) ==
    \/ e.kind = "nomanifest" /\ tail = <<>>
    \/ e.kind = "version" /\ Contains(tail, e.version)

\* the directory is a hit: no version is known (no manifest, or a manifest
\* without a version) and the item has no constraint text, or the manifest's
\* version satisfies the constraint
ValidAsAmended(e, tail) ==
    \/ e.kind \in {"nomanifest", "noversion"} /\ tail = <<>>
    \/ e.kind = "version" /\ Contains(tail, e.version)

\* C20 as stated: the precompiled directory is taken exactly when it has no
\* manifest and the item is unconstrained or its manifest's version satisfies
\* the constraint; src/<name> likewise, once the precompiled one was not taken.
C20_HitAsClaimed ==
    Probed =>
        /\ (last.outcome = "cache") <=> ValidAsClaimed(last.cache_before, last.item.tail)
        /\ last.outcome = "local" => ValidAsClaimed(src_tree[last.item.name], last.item.tail)
        /\ last.outcome = "conflict" => ~ValidAsClaimed(src_tree[last.item.name], last.item.tail)

\* C20 amended: a manifest without a version counts like a missing manifest.
C20_HitAsAmended ==
    Probed =>
        /\ (last.outcome = "cache") <=> ValidAsAmended(last.cache_before, last.item.tail)
        /\ last.outcome = "local" => ValidAsAmended(src_tree[last.item.name], last.item.tail)
        /\ last.outcome = "conflict" => ~ValidAsAmended(src_tree[last.item.name], last.item.tail)

\* C20 witness: a precompiled directory whose manifest has no version is taken
\* for an unconstrained item
C20_Witness ==
    /\ last.outcome = "cache"
    /\ last.cache_before.kind = "noversion"
    /\ last.item.tail = <<>>

\* C21: when an item is satisfied from the precompiled directory or from
\* src/<name>, the queue after the step is the rest of the queue followed by
\* every dependency the manifest of that directory lists, in order (nothing
\* when the directory has no manifest).
C21_HitEnqueuesDeps ==
    [][(/\ install_pc = "loop"
        /\ install_queue # <<>>
        /\ last'.outcome \in {"cache", "local"})
          => LET p == Head(install_queue).name
                 e == IF last'.outcome = "cache" THEN cache'[p] ELSE src_tree'[p]
                 listed == IF HasManifest(e) THEN manifest_deps'[p].list ELSE <<>>
             IN  install_queue' = Tail(install_queue) \o listed]_vars

\* C21 witness: a precompiled directory was taken and the dependency its
\* manifest lists stands at the back of the queue
C21_Witness ==
    /\ last.outcome = "cache"
    /\ HasManifest(cache[last.item.name])
    /\ manifest_deps[last.item.name].list # <<>>
    /\ install_queue # <<>>
    /\ install_queue[Len(install_queue)] = manifest_deps[last.item.name].list[1]

\* the queue on entry: the given specs, then the directories of src/ as bare names
QueueAsGiven == install_queue \in {targets \o l : l \in LocalSrcQueues}

\* a step of the loop handles the item at the front and leaves the rest of the
\* queue in place, whatever it appends behind it
FifoStep ==
    (install_pc = "loop" /\ install_queue # <<>>)
        => /\ last'.item = Head(install_queue)
           /\ Len(install_queue') >= Len(install_queue) - 1
           /\ SubSeq(install_queue', 1, Len(install_queue) - 1) = Tail(install_queue)
           /\ depths'.popped = Head(depths.queued)

\* no queued item is shallower than the item handled last, and the queue is
\* in the order of the depths
DepthOrdered ==
    /\ Len(depths.queued) = Len(install_queue)
    /\ \A i \in 1..Len(depths.queued) : depths.popped <= depths.queued[i]
    /\ \A i, j \in 1..Len(depths.queued) : i < j => depths.queued[i] <= depths.queued[j]

\* C22: the queue starts as the given specs followed by the local source
\* packages; every step handles the front item and appends behind the items
\* already queued; so the items are handled in the order of their dependency
\* depth: no item is handled while a shallower one is still queued.
C22_FifoByDepth ==
    /\ QueueAsGiven
    /\ [][FifoStep]_vars
    /\ []DepthOrdered

\* C22 witness: the given spec and the source directory of "a" (depth 0) both
\* enqueued "b" (depth 1) and were handled before the first "b"; the second "b"
\* is still queued
C22_Witness ==
    /\ depths.popped = 1
    /\ depths.queued = <<1>>
    /\ last.item.name = "b"
    /\ install_queue = <<last.item>>
    /\ Len(targets) = 1

\* the install directory of the item handled last existed before the step
HadInstallDir == Probed /\ last.cache_before.kind # "absent"

\* C23: on the remote path an existing install directory is removed only
\* after the asset has been downloaded: when the step removed an existing
\* directory, the download had succeeded (the item ended installed).
C23_RemovedAfterDownload ==
    (HadInstallDir /\ last.removed) => last.outcome = "remote"

\* C29: when the selected release has no asset of the expected name, the item
\* fails (the run is marked unsuccessful, nothing is enqueued) and the install
\* directory of the package is as it was before the step; a step that removes
\* the directory has found the asset.
C29_NoAssetLeavesInstallDir ==
    /\ last.outcome = "no_asset"
          => /\ ~is_successful
             /\ ~last.removed
             /\ last.enq = <<>>
             /\ cache[last.item.name] = last.cache_before
    /\ last.removed => last.outcome \in {"remote", "download_failed"}

\* C29 witness: the install directory held a version the item rejects, a
\* release was selected, and it had no asset of the expected name
C29_Witness ==
    /\ last.outcome = "no_asset"
    /\ last.cache_before.kind = "version"
    /\ last.version > last.cache_before.version
    /\ cache[last.item.name] = last.cache_before

(***************************************************************************)
(* Claims about the local index.                                           *)
(***************************************************************************)
\* the rows of the packages that were parsed successfully and list dependencies
CheckedRows == {i \in 1..Len(final_print_data) : final_print_data[i].ver.kind # "ERROR"}

\* every dependency string of the manifest has exactly one entry in the row
OneStatusEach(row) ==
    /\ Len(row.statuses) = Len(manifests[row.name].deps)
    /\ \A k \in 1..Len(row.statuses) : row.statuses[k].spec = manifests[row.name].deps[k]

\* C7 as stated: every dependency string of a successfully parsed package gets
\* exactly one of four statuses: Invalid Spec if it does not parse, else
\* Missing if its name is not in package_db, else Wrong Version if the
\* recorded version fails the constraint, else OK.
C7_FourStatuses ==
    \A i \in CheckedRows :
        /\ OneStatusEach(final_print_data[i])
        /\ \A k \in 1..Len(final_print_data[i].statuses) :
             LET d == final_print_data[i].statuses[k]
             IN  /\ d.status \in {"OK", "Missing", "Wrong Version", "Invalid Spec"}
                 /\ d.status =
                      (IF ~RequirementOk(d.spec) THEN "Invalid Spec"
                       ELSE IF d.spec.name \notin DOMAIN package_db THEN "Missing"
                       ELSE IF package_db[d.spec.name].kind = "version"
                               /\ InSpecifier(d.spec.tail, package_db[d.spec.name].v)
                            THEN "OK" ELSE "Wrong Version")

\* C7 amended: there is a fifth status. Invalid Spec if the string does not
\* parse, else Missing if its name is not in package_db, else Dep has Invalid
\* Ver if the recorded version of that name is not a valid version, else Wrong
\* Version if that version fails the constraint, else OK.
C7_FiveStatuses ==
    \A i \in CheckedRows :
        /\ OneStatusEach(final_print_data[i])
        /\ \A k \in 1..Len(final_print_data[i].statuses) :
             LET d == final_print_data[i].statuses[k]
             IN  d.status =
                   (IF ~RequirementOk(d.spec) THEN "Invalid Spec"
                    ELSE IF d.spec.name \notin DOMAIN package_db THEN "Missing"
                    ELSE IF package_db[d.spec.name].kind # "version"
                         THEN "Dep has Invalid Ver"
                    ELSE IF ~InSpecifier(d.spec.tail, package_db[d.spec.name].v)
                         THEN "Wrong Version"
                    ELSE "OK")

\* C7 witness: the report is complete and holds a dependency on a package
\* whose recorded version is not a valid version, next to a satisfied one
C7_Witness ==
    /\ index_pc = "done"
    /\ \E i, j \in CheckedRows :
         /\ \E k \in 1..Len(final_print_data[i].statuses) :
              final_print_data[i].statuses[k].status = "Dep has Invalid Ver"
         /\ \E k \in 1..Len(final_print_data[j].statuses) :
              final_print_data[j].statuses[k].status = "OK"

\* package_db has been built
DbBuilt == index_pc \in {"validate", "done"}

\* package_db holds exactly the parse results whose version is not in excluded
DbHoldsAllBut(excluded) ==
    /\ \A i \in 1..Len(all_parse_results) :
          LET r == all_parse_results[i]
          IN  IF r.ver.kind \in excluded
              THEN r.name \notin DOMAIN package_db
              ELSE r.name \in DOMAIN package_db /\ package_db[r.name] = r.ver
    /\ \A n \in DOMAIN package_db :
          \E i \in 1..Len(all_parse_results) : all_parse_results[i].name = n

\* C25 as stated: package_db holds exactly the name -> version entries of the
\* parse results that are not ERROR.
C25_DbIsNonErrorResults == DbBuilt => DbHoldsAllBut({"ERROR"})

\* C25 amended: package_db holds exactly the entries of the parse results
\* whose version is neither ERROR nor N/A (a manifest that parsed but declares
\* no version is left out as well).
C25_DbIsVersionedResults == DbBuilt => DbHoldsAllBut({"ERROR", "N/A"})

\* C25 witness: of two parsed manifests one declares a version and is in
\* package_db, the other declares none and is not
C25_Witness ==
    /\ index_pc = "validate"
    /\ Len(all_parse_results) = 2
    /\ \E i, j \in 1..2 :
         /\ all_parse_results[i].ver.kind = "version"
         /\ all_parse_results[j].ver.kind = "N/A"
         /\ DOMAIN package_db = {all_parse_results[i].name}

\* what package_db holds once it is built from every parse result
FullDb ==
    [p \in {q \in targets_to_process : parse_package_yaml(q).ver.kind \notin {"ERROR", "N/A"}}
        |-> parse_package_yaml(p).ver]

\* C8: while a validation worker has started (is running or has finished),
\* every parse worker has finished and been collected, and package_db is the
\* database built from all parse results (so it is not modified meanwhile).
C8_PhaseBarrier ==
    (\E q \in Pkgs : val_pc[q] \in {"running", "finished", "collected"})
        => /\ \A p \in targets_to_process : parse_pc[p] = "collected"
           /\ Len(all_parse_results) = Cardinality(targets_to_process)
           /\ package_db = FullDb

\* C8 witness: two validation workers run side by side against a database of
\* two packages
C8_Witness ==
    /\ \A q \in Pkgs : val_pc[q] = "running"
    /\ DOMAIN package_db = Pkgs

\* the position of a package name in the alphabetical order
NameRank(n) == CHOOSE k \in 1..Len(NameOrder) : NameOrder[k] = n

\* C26: the printed report depends on the manifests only, not on the order in
\* which the workers of either pool complete: it has one row per package found,
\* in the order of the names, and each row is what process_and_color_deps
\* makes of that package's own manifest and of the database of all manifests.
C26_ReportIsDeterministic ==
    (index_pc = "done" /\ targets_to_process # {})
        => /\ Len(final_print_data) = Cardinality(targets_to_process)
           /\ {final_print_data[i].name : i \in 1..Len(final_print_data)} = targets_to_process
           /\ \A i, j \in 1..Len(final_print_data) :
                 i < j => NameRank(final_print_data[i].name) < NameRank(final_print_data[j].name)
           /\ \A i \in 1..Len(final_print_data) :
                 final_print_data[i] =
                     process_and_color_deps(parse_package_yaml(final_print_data[i].name), FullDb)

\* C26 witness: the parse of "b" completed before the parse of "a", "a"
\* depends on "b", and the report lists "a" first
C26_Witness ==
    /\ index_pc = "done"
    /\ Len(all_parse_results) = 2
    /\ all_parse_results[1].name = "b"
    /\ Len(final_print_data) = 2
    /\ final_print_data[1].name = "a"
    /\ \E k \in 1..Len(final_print_data[1].statuses) :
         /\ final_print_data[1].statuses[k].spec.name = "b"
         /\ final_print_data[1].statuses[k].status = "OK"

====
